---- MODULE Spec2Model ----
(***************************************************************************)
(* Hierarchical to-do application (Flask + SQLAlchemy on SQLite).          *)
(*                                                                         *)
(* The state is the content of the three tables (user, todo_list, task)    *)
(* and the cookies each client holds: users is the set of user ids,        *)
(* accounts the other columns of the user rows, cookies the session and    *)
(* the remember-me cookie of every client that holds one.  in_flight holds  *)
(* the requests that a worker thread has validated and not yet committed   *)
(* (SpecRace); in the other specifications a request runs from its first   *)
(* query to its commit without another request in between.                 *)
(* Every route of backend/api.py that changes the store is an operator     *)
(* that maps the current tables and the request to the new tables and the  *)
(* HTTP response (status and message); its action commits the new tables.  *)
(* The caller of a route is the authenticated user (flask_login's          *)
(* current_user).  In the specifications of the task engine client i is    *)
(* the browser in which user i registered; it never logs out, so that the  *)
(* caller u of a route is the current_user of client u.  SpecSessions and  *)
(* SpecAuth go through register, login, logout and login_required.         *)
(*                                                                         *)
(* Store semantics that the routes rely on and that are modelled here:     *)
(*  - integer primary keys are SQLite rowids: a new row gets max(id) + 1;  *)
(*  - SQLite does not enforce the declared foreign keys (no PRAGMA         *)
(*    foreign_keys is issued), so a stored parent_id may name no row;      *)
(*  - the relationships Task.parent / Task.children are plain lookups by   *)
(*    parent_id, with no filter on user or list;                           *)
(*  - a Python recursion that does not end raises RecursionError, which    *)
(*    `except Exception` catches.                                          *)
(* Not modelled: description texts and created_at (no route branches on    *)
(* them).                                                                  *)
(***************************************************************************)
EXTENDS Integers, Sequences, FiniteSets, TLC

VARIABLES users, lists, tasks, accounts, cookies, in_flight

vars == <<users, lists, tasks, accounts, cookies, in_flight>>

(***************************************************************************)
(* Bounds of the model.                                                    *)
(***************************************************************************)
MaxUsers == 2
MaxLists == 2
MaxTasks == 3
\* Tasks of SpecTree, SpecCascade and SpecDeep.
TreeMaxTasks == 3
CascadeMaxTasks == 4
DeepMaxTasks == 7
\* Lists and tasks of SpecLists.
ListsMaxLists == 2
ListsMaxTasks == 3
\* Tasks of SpecFields.
FieldsMaxTasks == 2
\* Users, lists and tasks of SpecOwners.
OwnersMaxUsers == 2
OwnersMaxLists == 2
OwnersMaxTasks == 2

SessionsMaxUsers == 2
SessionsMaxClients == 2

AuthMaxUsers == 2
AuthMaxClients == 2
AuthMaxLists == 1
AuthMaxTasks == 1

RaceMaxTasks == 3
RaceMaxRequests == 2

(***************************************************************************)
(* Values.                                                                 *)
(***************************************************************************)
\* Python's None in an integer or datetime column (ids and times are >= 1).
NULL == 0

\* datetime.utcnow(): some non-null time.
utcnow == 1

\* Outcome of a Python recursion that exceeds the interpreter's limit.
RecursionError == -1

\* The nesting limit the routes compare get_depth() with.
MaxDepth == 5

valid_urgencies == {"low", "medium", "high", "urgent"}

Max(S) == CHOOSE x \in S : \A y \in S : y <= x

\* The rowid SQLite gives to the next inserted row of a table with ids S.
NextId(S) == IF S = {} THEN 1 ELSE Max(S) + 1

RECURSIVE SortedSeq(_)
SortedSeq(S) ==
    IF S = {} THEN <<>>
    ELSE LET m == CHOOSE x \in S : \A y \in S : x <= y
         IN <<m>> \o SortedSeq(S \ {m})

\* str.strip() on a text given as a sequence of characters.
RECURSIVE lstrip(_)
lstrip(s) == IF s # <<>> /\ Head(s) = " " THEN lstrip(Tail(s)) ELSE s

RECURSIVE rstrip(_)
rstrip(s) ==
    IF s # <<>> /\ s[Len(s)] = " " THEN rstrip(SubSeq(s, 1, Len(s) - 1)) ELSE s

strip(s) == rstrip(lstrip(s))

(***************************************************************************)
(* backend/models.py: class Task.                                          *)
(***************************************************************************)
\* Task(...): a new row; completed defaults to False, completed_at to None.
Task(title, urgency, list_id, user_id, parent_id) ==
    [title |-> title, urgency |-> urgency, completed |-> FALSE,
     completed_at |-> NULL, user_id |-> user_id, list_id |-> list_id,
     parent_id |-> parent_id]

\* task.parent: the row parent_id names, None when parent_id is None or
\* names no row.
parent(T, t) == IF T[t].parent_id \in DOMAIN T THEN T[t].parent_id ELSE NULL

\* task.children: the rows whose parent_id is the task's id, in id order.
children(T, t) == SortedSeq({c \in DOMAIN T : T[c].parent_id = t})

\* get_depth with the interpreter's recursion limit: a parent chain longer
\* than the table is a cycle, on which the recursion never returns.
RECURSIVE depth_walk(_, _, _)
depth_walk(T, t, fuel) ==
    IF parent(T, t) = NULL THEN 0
    ELSE IF fuel = 0 THEN RecursionError
    ELSE LET d == depth_walk(T, parent(T, t), fuel - 1)
         IN IF d = RecursionError THEN RecursionError ELSE d + 1

get_depth(T, t) == depth_walk(T, t, Cardinality(DOMAIN T))

\* mark_completed that cascades to the parent instead of the children.
mark_completed_upwards(T, self, cascade) ==
    LET T1 == [T EXCEPT ![self].completed = TRUE,
                        ![self].completed_at = utcnow]
    IN IF cascade /\ parent(T1, self) # NULL
       THEN [T1 EXCEPT ![parent(T1, self)].completed = TRUE,
                       ![parent(T1, self)].completed_at = utcnow]
       ELSE T1

RECURSIVE mark_completed(_, _, _)
RECURSIVE mark_each_child(_, _)
mark_completed(T, self, cascade) ==
    LET T1 == [T EXCEPT ![self].completed = TRUE,
                        ![self].completed_at = utcnow]
    IN IF cascade THEN mark_each_child(T1, children(T1, self)) ELSE T1

\* for child in self.children: if not child.completed: child.mark_completed()
mark_each_child(T, cs) ==
    IF cs = <<>> THEN T
    ELSE LET child == Head(cs)
             T1 == IF ~T[child].completed
                   THEN mark_completed(T, child, TRUE) ELSE T
         IN mark_each_child(T1, Tail(cs))

\* mark_incomplete that clears the flag and leaves the time.
mark_incomplete_keeps_time(T, self, cascade) ==
    [T EXCEPT ![self].completed = FALSE]

RECURSIVE mark_incomplete(_, _, _)
mark_incomplete(T, self, cascade) ==
    LET T1 == [T EXCEPT ![self].completed = FALSE,
                        ![self].completed_at = NULL]
    IN IF cascade /\ parent(T1, self) # NULL /\ T1[parent(T1, self)].completed
       THEN mark_incomplete(T1, parent(T1, self), FALSE)
       ELSE T1

\* is_ancestor_of: "yes", "no", or "hang" when the while loop runs round a
\* cycle of parents that does not hold self and so never ends.
RECURSIVE ancestor_walk(_, _, _, _)
ancestor_walk(T, self, current, seen) ==
    IF current = NULL THEN "no"
    ELSE IF current = self THEN "yes"
    ELSE IF current \in seen THEN "hang"
    ELSE ancestor_walk(T, self, parent(T, current), seen \cup {current})

\* is_ancestor_of whose walk starts at other_task itself.
is_ancestor_of_or_self(T, self, other_task) ==
    ancestor_walk(T, self, other_task, {})

\* is_ancestor_of that looks at the direct parent only.
is_ancestor_of_parent_only(T, self, other_task) ==
    IF parent(T, other_task) = self THEN "yes" ELSE "no"

is_ancestor_of(T, self, other_task) ==
    ancestor_walk(T, self, parent(T, other_task), {})

\* cascade_delete that stops at the children of the deleted rows.
cascade_delete_children_only(T, roots) ==
    roots \cup {c \in DOMAIN T : T[c].parent_id \in roots}

\* get_all_descendants: the descendants in pre-order, or <<RecursionError>>
\* when the recursion goes deeper than there are rows (a cycle).
RECURSIVE descendants_walk(_, _, _)
RECURSIVE extend_each_child(_, _, _, _)
descendants_walk(T, self, fuel) ==
    extend_each_child(T, children(T, self), <<>>, fuel)

\* for child in self.children: append(child); extend(child.get_all_...())
extend_each_child(T, cs, descendants, fuel) ==
    IF cs = <<>> THEN descendants
    ELSE IF fuel = 0 THEN <<RecursionError>>
    ELSE LET child == Head(cs)
             below == descendants_walk(T, child, fuel - 1)
         IN IF below = <<RecursionError>> THEN below
            ELSE extend_each_child(T, Tail(cs),
                                   descendants \o <<child>> \o below, fuel)

get_all_descendants(T, self) ==
    descendants_walk(T, self, Cardinality(DOMAIN T))

\* task.to_dict(): the fields of the task a response carries.
to_dict(T, t) ==
    [id |-> t, title |-> T[t].title, completed |-> T[t].completed,
     urgency |-> T[t].urgency, completed_at |-> T[t].completed_at,
     user_id |-> T[t].user_id, list_id |-> T[t].list_id,
     parent_id |-> T[t].parent_id, depth |-> get_depth(T, t)]

\* The rows session.delete(t) removes for each t of roots: the cascade
\* "all, delete-orphan" on children follows task.children to any depth.
RECURSIVE cascade_delete(_, _)
cascade_delete(T, roots) ==
    LET more == roots \cup {c \in DOMAIN T : T[c].parent_id \in roots}
    IN IF more = roots THEN roots ELSE cascade_delete(T, more)

\* Some row of D lies on a cycle of parents inside D: the unit of work
\* cannot order such deletes.
RECURSIVE has_cycle_from(_, _, _, _)
has_cycle_from(T, D, t, fuel) ==
    IF parent(T, t) = NULL \/ parent(T, t) \notin D THEN FALSE
    ELSE IF fuel = 0 THEN TRUE
    ELSE has_cycle_from(T, D, parent(T, t), fuel - 1)

delete_has_cycle(T, D) == \E t \in D : has_cycle_from(T, D, t, Cardinality(D))

Remove(f, D) == [x \in DOMAIN f \ D |-> f[x]]

(***************************************************************************)
(* backend/api.py: the routes.  Each operator is the route's function on   *)
(* the tables tasks and lists for the caller u (current_user.id); its      *)
(* result holds the tables after the request and the response.             *)
(***************************************************************************)
Result(T, L, status, message) ==
    [tasks |-> T, lists |-> L, status |-> status, message |-> message]

\* The list lookup without the filter on user_id.
owned_list_any_user(L, u, list_id) == list_id \in DOMAIN L

\* TodoList.query.filter_by(id=list_id, user_id=current_user.id).first()
owned_list(L, u, list_id) == list_id \in DOMAIN L /\ L[list_id].user_id = u

\* Task.query.filter_by(id=task_id, user_id=current_user.id).first()
owned_task(T, u, task_id) == task_id \in DOMAIN T /\ T[task_id].user_id = u

\* dict.get(key, default) on the request's JSON object.
get(data, key, default) == IF key \in DOMAIN data THEN data[key] ELSE default

\* POST /lists
create_list(u, data) ==
    IF "name" \notin DOMAIN data
    THEN Result(tasks, lists, 400, "List name is required")
    ELSE IF strip(data.name) = <<>>
    THEN Result(tasks, lists, 400, "List name cannot be empty")
    ELSE LET id == NextId(DOMAIN lists)
             todo_list == [name |-> strip(data.name), user_id |-> u]
         IN Result(tasks, [x \in DOMAIN lists \cup {id} |->
                              IF x = id THEN todo_list ELSE lists[x]],
                   201, "List created successfully")

\* delete_list that deletes the list's top-level tasks and leaves the rest.
delete_list_top_level_only(u, list_id, flush_ok) ==
    IF ~owned_list(lists, u, list_id)
    THEN Result(tasks, lists, 404, "List not found")
    ELSE Result(Remove(tasks, {t \in DOMAIN tasks :
                                  /\ tasks[t].list_id = list_id
                                  /\ tasks[t].parent_id = NULL}),
                Remove(lists, {list_id}), 200, "List deleted successfully")

\* DELETE /lists/<list_id>.  flush_ok is the outcome of the unit of work
\* when the rows to delete hold a cycle of parents.
delete_list(u, list_id, flush_ok) ==
    IF ~owned_list(lists, u, list_id)
    THEN Result(tasks, lists, 404, "List not found")
    ELSE LET D == cascade_delete(tasks,
                      {t \in DOMAIN tasks : tasks[t].list_id = list_id})
         IN IF delete_has_cycle(tasks, D) /\ ~flush_ok
            THEN Result(tasks, lists, 500, "Failed to delete list")
            ELSE Result(Remove(tasks, D), Remove(lists, {list_id}),
                        200, "List deleted successfully")

\* POST /tasks
create_task(u, data) ==
    IF ~({"title", "list_id"} \subseteq DOMAIN data)
    THEN Result(tasks, lists, 400, "Title and list_id are required")
    ELSE IF strip(data.title) = <<>>
    THEN Result(tasks, lists, 400, "Task title cannot be empty")
    ELSE IF ~owned_list(lists, u, data.list_id)
    THEN Result(tasks, lists, 404, "List not found")
    ELSE LET id == NextId(DOMAIN tasks)
             task == Task(strip(data.title), get(data, "urgency", "medium"),
                          data.list_id, u, get(data, "parent_id", NULL))
             T1 == [x \in DOMAIN tasks \cup {id} |->
                       IF x = id THEN task ELSE tasks[x]]
         IN \* the commit precedes task.to_dict(), which calls get_depth()
            IF get_depth(T1, id) = RecursionError
            THEN Result(T1, lists, 500, "Failed to create task")
            ELSE Result(T1, lists, 201, "Task created successfully")

\* What the caller of POST /tasks sees: the status, the message and, on
\* success, the new task's to_dict() (a sequence of one dict or none).
create_task_response(u, data) ==
    LET r == create_task(u, data)
    IN [status |-> r.status, message |-> r.message,
        task |-> IF r.status = 201
                 THEN <<to_dict(r.tasks, NextId(DOMAIN tasks))>> ELSE <<>>]

\* PUT /tasks/<task_id>
update_task(u, task_id, data) ==
    IF ~owned_task(tasks, u, task_id)
    THEN Result(tasks, lists, 404, "Task not found")
    ELSE IF DOMAIN data = {}
    THEN Result(tasks, lists, 400, "No data provided")
    ELSE IF "title" \in DOMAIN data /\ strip(data.title) = <<>>
    THEN Result(tasks, lists, 400, "Task title cannot be empty")
    ELSE LET T1 == IF "title" \in DOMAIN data
                   THEN [tasks EXCEPT ![task_id].title = strip(data.title)]
                   ELSE tasks
             T2 == IF "urgency" \in DOMAIN data
                      /\ data.urgency \in valid_urgencies
                   THEN [T1 EXCEPT ![task_id].urgency = data.urgency]
                   ELSE T1
             T3 == IF "completed" \in DOMAIN data
                   THEN IF data.completed
                        THEN mark_completed(T2, task_id, TRUE)
                        ELSE mark_incomplete(T2, task_id, TRUE)
                   ELSE T2
         IN \* the commit precedes task.to_dict(), which calls get_depth()
            IF get_depth(T3, task_id) = RecursionError
            THEN Result(T3, lists, 500, "Failed to update task")
            ELSE Result(T3, lists, 200, "Task updated successfully")

\* DELETE /tasks/<task_id>
delete_task(u, task_id, flush_ok) ==
    IF ~owned_task(tasks, u, task_id)
    THEN Result(tasks, lists, 404, "Task not found")
    ELSE LET D == cascade_delete(tasks, {task_id})
         IN IF delete_has_cycle(tasks, D) /\ ~flush_ok
            THEN Result(tasks, lists, 500, "Failed to delete task")
            ELSE Result(Remove(tasks, D), lists,
                        200, "Task deleted successfully")

\* POST /tasks/<parent_id>/subtasks
create_subtask(u, parent_id, data) ==
    IF ~owned_task(tasks, u, parent_id)
    THEN Result(tasks, lists, 404, "Parent task not found")
    ELSE IF "title" \notin DOMAIN data
    THEN Result(tasks, lists, 400, "Title is required")
    ELSE IF strip(data.title) = <<>>
    THEN Result(tasks, lists, 400, "Task title cannot be empty")
    ELSE IF get_depth(tasks, parent_id) = RecursionError
    THEN \* raised outside the try block: the framework answers
         Result(tasks, lists, 500, "Internal Server Error")
    ELSE IF get_depth(tasks, parent_id) >= MaxDepth
    THEN Result(tasks, lists, 400, "Maximum nesting depth reached")
    ELSE LET id == NextId(DOMAIN tasks)
             subtask == Task(strip(data.title),
                             get(data, "urgency", "medium"),
                             tasks[parent_id].list_id, u, parent_id)
         IN Result([x \in DOMAIN tasks \cup {id} |->
                       IF x = id THEN subtask ELSE tasks[x]],
                   lists, 201, "Subtask created successfully")

\* move_task that moves the task alone: its children stay with the old parent.
move_task_leaves_children(u, task_id, data) ==
    IF ~owned_task(tasks, u, task_id)
    THEN Result(tasks, lists, 404, "Task not found")
    ELSE IF DOMAIN data = {}
    THEN Result(tasks, lists, 400, "No data provided")
    ELSE LET new_parent_id == get(data, "parent_id", NULL)
             T1 == [t \in DOMAIN tasks |->
                       IF t = task_id
                       THEN [tasks[t] EXCEPT !.parent_id = new_parent_id]
                       ELSE IF tasks[t].parent_id = task_id
                       THEN [tasks[t] EXCEPT
                                !.parent_id = tasks[task_id].parent_id]
                       ELSE tasks[t]]
             \* the commit precedes task.to_dict(), which calls get_depth()
             committed ==
                 IF get_depth(T1, task_id) = RecursionError
                 THEN Result(T1, lists, 500, "Failed to move task")
                 ELSE Result(T1, lists, 200, "Task moved successfully")
         IN IF new_parent_id = NULL THEN committed
            ELSE IF ~owned_task(tasks, u, new_parent_id)
            THEN Result(tasks, lists, 404, "New parent task not found")
            ELSE IF is_ancestor_of(tasks, task_id, new_parent_id) = "hang"
            THEN Result(tasks, lists, 0, "(no response)")
            ELSE IF is_ancestor_of(tasks, task_id, new_parent_id) = "yes"
            THEN Result(tasks, lists, 400, "Cannot move task to descendant")
            ELSE IF get_depth(tasks, new_parent_id) = RecursionError
            THEN Result(tasks, lists, 500, "Internal Server Error")
            ELSE IF get_depth(tasks, new_parent_id) >= MaxDepth
            THEN Result(tasks, lists, 400, "Maximum nesting depth reached")
            ELSE IF tasks[task_id].list_id # tasks[new_parent_id].list_id
            THEN Result(tasks, lists, 400, "Cannot move task to different list")
            ELSE committed

\* PUT /tasks/<task_id>/move
move_task(u, task_id, data) ==
    IF ~owned_task(tasks, u, task_id)
    THEN Result(tasks, lists, 404, "Task not found")
    ELSE IF DOMAIN data = {}
    THEN Result(tasks, lists, 400, "No data provided")
    ELSE LET new_parent_id == get(data, "parent_id", NULL)
             T1 == [tasks EXCEPT ![task_id].parent_id = new_parent_id]
             \* the commit precedes task.to_dict(), which calls get_depth()
             committed ==
                 IF get_depth(T1, task_id) = RecursionError
                 THEN Result(T1, lists, 500, "Failed to move task")
                 ELSE Result(T1, lists, 200, "Task moved successfully")
         IN IF new_parent_id = NULL THEN committed
            ELSE IF ~owned_task(tasks, u, new_parent_id)
            THEN Result(tasks, lists, 404, "New parent task not found")
            ELSE IF is_ancestor_of(tasks, task_id, new_parent_id) = "hang"
            THEN Result(tasks, lists, 0, "(no response)")
            ELSE IF is_ancestor_of(tasks, task_id, new_parent_id) = "yes"
            THEN Result(tasks, lists, 400, "Cannot move task to descendant")
            ELSE IF get_depth(tasks, new_parent_id) = RecursionError
            THEN Result(tasks, lists, 500, "Internal Server Error")
            ELSE IF get_depth(tasks, new_parent_id) >= MaxDepth
            THEN Result(tasks, lists, 400, "Maximum nesting depth reached")
            ELSE IF tasks[task_id].list_id # tasks[new_parent_id].list_id
            THEN Result(tasks, lists, 400, "Cannot move task to different list")
            ELSE committed

\* PUT /tasks/<task_id>/move in two steps, as a worker thread runs it beside
\* other threads.  The queries of the validation read the committed rows
\* (the sqlite3 driver opens no transaction for a SELECT); the request
\* passes when it reaches the try block.
move_task_passes(u, task_id, data) ==
    move_task(u, task_id, data).message
        \in {"Task moved successfully", "Failed to move task"}

\* task.parent_id = new_parent_id; db.session.commit(): the UPDATE of the one
\* column of the one row, on the rows committed by then.
move_task_commit(T, task_id, new_parent_id) ==
    [T EXCEPT ![task_id].parent_id = new_parent_id]

\* Task.to_dict(include_children=True), as the ids of the rows it holds:
\* the task, then the nested view of each of its children.  From a task
\* without parent the recursion ends: no row below it is met twice.
RECURSIVE nested_view(_, _)
RECURSIVE view_each(_, _)
nested_view(T, t) == <<t>> \o view_each(T, children(T, t))

view_each(T, ts) ==
    IF ts = <<>> THEN <<>>
    ELSE nested_view(T, Head(ts)) \o view_each(T, Tail(ts))

\* GET /tasks/<list_id>: the status and the ids of the rows of the view.
get_tasks(u, list_id) ==
    IF ~owned_list(lists, u, list_id)
    THEN [status |-> 404, tasks |-> <<>>]
    ELSE [status |-> 200,
          tasks |-> view_each(tasks,
                        SortedSeq({t \in DOMAIN tasks :
                                      /\ tasks[t].list_id = list_id
                                      /\ tasks[t].user_id = u
                                      /\ tasks[t].parent_id = NULL}))]

\* "task_count" of TodoList.to_dict: len(self.tasks)
task_count(T, list_id) ==
    Cardinality({t \in DOMAIN T : T[t].list_id = list_id})

\* GET /tasks/<task_id>/tree: the status and "total_descendants".
get_task_tree(u, task_id) ==
    IF ~owned_task(tasks, u, task_id)
    THEN [status |-> 404, total_descendants |-> NULL]
    ELSE IF get_depth(tasks, task_id) = RecursionError
            \/ get_all_descendants(tasks, task_id) = <<RecursionError>>
    THEN [status |-> 500, total_descendants |-> NULL]
    ELSE [status |-> 200,
          total_descendants |-> Len(get_all_descendants(tasks, task_id))]

\* GET /tasks/<task_id>/flatten: the status and "total_count".
flatten_task_tree(u, task_id) ==
    IF ~owned_task(tasks, u, task_id)
    THEN [status |-> 404, total_count |-> NULL]
    ELSE IF get_all_descendants(tasks, task_id) = <<RecursionError>>
            \/ \E t \in {task_id} \cup DOMAIN tasks :
                   /\ t \in {task_id} \cup
                          {get_all_descendants(tasks, task_id)[i] :
                              i \in 1..Len(get_all_descendants(tasks, task_id))}
                   /\ get_depth(tasks, t) = RecursionError
    THEN [status |-> 500, total_count |-> NULL]
    ELSE [status |-> 200,
          total_count |-> 1 + Len(get_all_descendants(tasks, task_id))]

\* update_descendants_list_id that writes the task and not its children.
update_descendants_list_id_task_only(T, parent_task, new_list_id) ==
    [T EXCEPT ![parent_task].list_id = new_list_id]

\* update_descendants_list_id(parent_task, new_list_id)
RECURSIVE update_descendants_list_id(_, _, _)
RECURSIVE update_each_child(_, _, _)
update_descendants_list_id(T, parent_task, new_list_id) ==
    LET T1 == [T EXCEPT ![parent_task].list_id = new_list_id]
    IN update_each_child(T1, children(T1, parent_task), new_list_id)

update_each_child(T, cs, new_list_id) ==
    IF cs = <<>> THEN T
    ELSE update_each_child(update_descendants_list_id(T, Head(cs), new_list_id),
                           Tail(cs), new_list_id)

\* move_task_to_list without the check that the task is top-level.
move_task_to_list_any_level(u, task_id, data) ==
    IF "new_list_id" \notin DOMAIN data
    THEN Result(tasks, lists, 400, "new_list_id is required")
    ELSE IF ~owned_task(tasks, u, task_id)
    THEN Result(tasks, lists, 404, "Task not found")
    ELSE IF ~owned_list(lists, u, data.new_list_id)
    THEN Result(tasks, lists, 404, "Destination list not found")
    ELSE Result([tasks EXCEPT ![task_id].list_id = data.new_list_id],
                lists, 200, "Task moved successfully")

\* PUT /tasks/<task_id>/move-to-list
move_task_to_list(u, task_id, data) ==
    IF "new_list_id" \notin DOMAIN data
    THEN Result(tasks, lists, 400, "new_list_id is required")
    ELSE IF ~owned_task(tasks, u, task_id)
    THEN Result(tasks, lists, 404, "Task not found")
    ELSE IF tasks[task_id].parent_id # NULL
    THEN Result(tasks, lists, 400,
                "Only top-level tasks can be moved between lists")
    ELSE IF ~owned_list(lists, u, data.new_list_id)
    THEN Result(tasks, lists, 404, "Destination list not found")
    ELSE Result(update_descendants_list_id(tasks, task_id, data.new_list_id),
                lists, 200, "Task moved successfully")

\* PUT /lists/<list_id>/complete-all
RECURSIVE complete_each(_, _)
complete_each(T, ts) ==
    IF ts = <<>> THEN T
    ELSE LET task == Head(ts)
             T1 == IF ~T[task].completed
                   THEN mark_completed(T, task, TRUE) ELSE T
         IN complete_each(T1, Tail(ts))

complete_all_tasks(u, list_id) ==
    IF ~owned_list(lists, u, list_id)
    THEN Result(tasks, lists, 404, "List not found")
    ELSE LET top_level_tasks ==
                 SortedSeq({t \in DOMAIN tasks :
                               /\ tasks[t].list_id = list_id
                               /\ tasks[t].user_id = u
                               /\ tasks[t].parent_id = NULL})
         IN Result(complete_each(tasks, top_level_tasks), lists,
                   200, "All tasks completed successfully")

\* PUT /lists/<list_id>/uncheck-all
uncheck_all_tasks(u, list_id) ==
    IF ~owned_list(lists, u, list_id)
    THEN Result(tasks, lists, 404, "List not found")
    ELSE LET all_tasks == {t \in DOMAIN tasks :
                              tasks[t].list_id = list_id /\ tasks[t].user_id = u}
         IN Result([t \in DOMAIN tasks |->
                       IF t \in all_tasks
                       THEN [tasks[t] EXCEPT !.completed = FALSE,
                                             !.completed_at = NULL]
                       ELSE tasks[t]],
                   lists, 200, "All tasks unchecked successfully")

(***************************************************************************)
(* backend/auth.py and the session handling of flask_login it relies on.   *)
(* A client holds two cookies: the Flask session, whose "_user_id" names   *)
(* the logged-in user, and flask_login's remember-me cookie.  flask_login  *)
(* sets or deletes the remember-me cookie when the response is built,      *)
(* following the marker session["_remember"] that login_user and           *)
(* logout_user leave in the session.                                       *)
(***************************************************************************)
AuthResult(U, A, K, status, message) ==
    [users |-> U, accounts |-> A, cookies |-> K,
     status |-> status, message |-> message]

\* str.lower, over the letters the requests use.
uppercase == [A |-> "a", B |-> "b"]
\* The address as it was typed.
lower_as_given(s) == s

lower(s) == [i \in DOMAIN s |->
                IF s[i] \in DOMAIN uppercase THEN uppercase[s[i]] ELSE s[i]]

\* werkzeug.security: a hash verifies exactly the password it was made of.
generate_password_hash(password) == <<"hash", password>>
check_password_hash(pwhash, password) == pwhash = <<"hash", password>>

\* User.check_password
check_password(A, user, password) ==
    check_password_hash(A[user].password_hash, password)

\* The cookies of a client that holds none.
no_cookie == [session |-> NULL, remember |-> NULL]
cookie(K, c) == IF c \in DOMAIN K THEN K[c] ELSE no_cookie
set_cookie(K, c, k) ==
    IF k = no_cookie
    THEN [d \in DOMAIN K \ {c} |-> K[d]]
    ELSE [d \in DOMAIN K \cup {c} |-> IF d = c THEN k ELSE K[d]]

\* current_user: the user of the session or, when the session names none,
\* the user of the remember-me cookie, who is then put back in the session.
load_user(K, c) ==
    LET k == cookie(K, c)
    IN  IF k.session # NULL THEN [user |-> k.session, cookies |-> K]
        ELSE IF k.remember # NULL
        THEN [user |-> k.remember,
              cookies |-> set_cookie(K, c, [k EXCEPT !.session = k.remember])]
        ELSE [user |-> NULL, cookies |-> K]

\* flask_login.login_user(user, remember)
login_user(K, c, user, remember) ==
    set_cookie(K, c, [session |-> user,
                      remember |-> IF remember THEN user
                                   ELSE cookie(K, c).remember])

\* POST /register
register(c, data) ==
    IF ~ ({"username", "email", "password"} \subseteq DOMAIN data)
    THEN AuthResult(users, accounts, cookies, 400,
                    "Username, email, and password required")
    ELSE
    LET username == strip(data.username)
        email == lower(strip(data.email))
        password == data.password
    IN  IF Len(username) < 3
        THEN AuthResult(users, accounts, cookies, 400,
                        "Username must be at least 3 characters")
        ELSE IF Len(password) < 6
        THEN AuthResult(users, accounts, cookies, 400,
                        "Password must be at least 6 characters")
        ELSE IF ~ \E i \in DOMAIN email : email[i] = "@"
        THEN AuthResult(users, accounts, cookies, 400, "Invalid email format")
        ELSE IF \E u \in users : accounts[u].username = username
        THEN AuthResult(users, accounts, cookies, 400,
                        "Username already exists")
        ELSE IF \E u \in users : accounts[u].email = email
        THEN AuthResult(users, accounts, cookies, 400,
                        "Email already registered")
        ELSE
        LET id == NextId(users)
            user == [username |-> username, email |-> email,
                     password_hash |-> generate_password_hash(password)]
        IN  AuthResult(users \cup {id},
                       [u \in users \cup {id} |->
                           IF u = id THEN user ELSE accounts[u]],
                       login_user(cookies, c, id, FALSE),
                       201, "Registration successful")

\* The rows the query of POST /login matches.  The query has no ORDER BY:
\* .first() is any of them, or None when there is none.
login_matches(username) ==
    {u \in users : accounts[u].username = username
                   \/ accounts[u].email = username}
first(S) == IF S = {} THEN {NULL} ELSE S

\* POST /login that asks for no password.
login_without_password(c, data, user) ==
    IF ~ ({"username", "password"} \subseteq DOMAIN data)
    THEN AuthResult(users, accounts, cookies, 400,
                    "Username and password required")
    ELSE
    IF user # NULL
    THEN AuthResult(users, accounts, login_user(cookies, c, user, TRUE),
                    200, "Login successful")
    ELSE AuthResult(users, accounts, cookies, 401,
                    "Invalid username or password")

\* POST /login, where user is the row .first() returned.
login(c, data, user) ==
    IF ~ ({"username", "password"} \subseteq DOMAIN data)
    THEN AuthResult(users, accounts, cookies, 400,
                    "Username and password required")
    ELSE
    IF user # NULL /\ check_password(accounts, user, data.password)
    THEN AuthResult(users, accounts, login_user(cookies, c, user, TRUE),
                    200, "Login successful")
    ELSE AuthResult(users, accounts, cookies, 401,
                    "Invalid username or password")

\* POST /logout.  logout_user() takes the user out of the session and
\* leaves the marker that has the remember-me cookie deleted;
\* session.clear() then empties the session, marker included, so that the
\* response deletes no cookie.  The response carries Clear-Site-Data:
\* "cookies": a client that obeys it (cleared) drops its cookies, any other
\* client keeps its remember-me cookie.
logout(c, cleared) ==
    LET k == cookie(cookies, c)
        kept == IF cleared THEN no_cookie
                ELSE [session |-> NULL, remember |-> k.remember]
    IN  IF load_user(cookies, c).user # NULL
        THEN AuthResult(users, accounts, set_cookie(cookies, c, kept),
                        200, "Logout successful")
        ELSE AuthResult(users, accounts, set_cookie(cookies, c, kept),
                        200, "User was not logged in")

\* flask_login.current_user of a request of client c.
current_user(c) == load_user(cookies, c).user

\* @login_required in front of a route whose answer to current_user is r:
\* an anonymous caller is redirected to login_view and the route does not
\* run.
login_required(c, r) ==
    IF current_user(c) = NULL
    THEN [tasks |-> tasks, lists |-> lists, cookies |-> cookies,
          status |-> 302, message |-> "Redirecting to auth.login"]
    ELSE [tasks |-> r.tasks, lists |-> r.lists,
          cookies |-> load_user(cookies, c).cookies,
          status |-> r.status, message |-> r.message]

(***************************************************************************)
(* The requests the model sends.  A request names rows by ids of 1..n,     *)
(* whether such a row exists or not.                                       *)
(***************************************************************************)
Titles == {<<" ">>, <<"a", " ">>}

CreateListData == {[name |-> n] : n \in Titles}

\* POST /tasks with a parent_id (any id, of a row or not) or without one.
CreateTaskData(nLists, nTasks) ==
    {[title |-> ti, list_id |-> l, parent_id |-> p] :
        ti \in Titles, l \in 1..nLists, p \in {NULL} \cup 1..nTasks}

\* POST /tasks without a parent_id, into the first list.
TopLevelTaskData == {[title |-> ti, list_id |-> 1] : ti \in Titles}

SubtaskData == {[title |-> ti] : ti \in Titles}

UpdateData == {[completed |-> c] : c \in BOOLEAN}

MoveData(nTasks) == {[parent_id |-> p] : p \in {NULL} \cup 1..nTasks}

MoveToListData(nLists) == {[new_list_id |-> l] : l \in 1..nLists}

\* The registration of the user with the given id by a newcomer: a name,
\* an address and a password of their own, all well-formed.
Letters == <<"a", "b", "c", "d", "e", "f">>
NewcomerData(id) ==
    [username |-> <<"u", "s", "r", Letters[id]>>,
     email |-> <<Letters[id], "@", "x">>,
     password |-> <<"s", "e", "c", "r", "e", "t">>]

\* Names, addresses and passwords of POST /register and POST /login: with
\* blanks to strip and capitals to lower or to keep, too short or without
\* "@", and a name that is also an address.
Usernames == {<<"b", "o", "b">>, <<" ", "b", "o", "b">>, <<"B", "o", "b">>,
              <<"a", "@", "x">>, <<"b", "o">>}
Emails == {<<"a", "@", "x">>, <<"A", "@", "x">>, <<"b", "@", "x">>,
           <<"a", "x">>}
Passwords == {<<"s", "e", "c", "r", "e", "t">>,
              <<"p", "a", "s", "s", "w", "d">>, <<"p", "w">>}

RegisterData ==
    {[username |-> n, email |-> e, password |-> p] :
        n \in Usernames, e \in Emails, p \in Passwords}
    \cup {[username |-> n] : n \in Usernames}

LoginData ==
    {[username |-> n, password |-> p] :
        n \in Usernames \cup Emails, p \in Passwords}
    \cup {[username |-> n] : n \in Usernames}

\* The rows .first() can return to POST /login.
login_rows(data) ==
    IF "username" \in DOMAIN data
    THEN first(login_matches(strip(data.username)))
    ELSE {NULL}

(***************************************************************************)
(* State machine: the store after construction is empty.  The actions take *)
(* the bounds of the specification they are used in: nLists and nTasks     *)
(* bound the ids of the rows created and named.                            *)
(***************************************************************************)
Init ==
    /\ users = {}
    /\ lists = <<>>
    /\ tasks = <<>>
    /\ accounts = <<>>
    /\ cookies = <<>>
    /\ in_flight = {}

\* The store after a route has run.
Apply(r) ==
    /\ tasks' = r.tasks
    /\ lists' = r.lists
    /\ UNCHANGED <<users, accounts, cookies, in_flight>>

\* The user table and the cookies after a route of backend/auth.py has run.
ApplyAuth(r) ==
    /\ users' = r.users
    /\ accounts' = r.accounts
    /\ cookies' = r.cookies
    /\ UNCHANGED <<lists, tasks, in_flight>>

\* The store and the cookies after a route behind @login_required has run.
ApplyProtected(r) ==
    /\ tasks' = r.tasks
    /\ lists' = r.lists
    /\ cookies' = r.cookies
    /\ UNCHANGED <<users, accounts, in_flight>>

\* A newcomer registers from a client of their own.
Register(nUsers) ==
    /\ NextId(users) <= nUsers
    /\ ApplyAuth(register(NextId(users), NewcomerData(NextId(users))))

\* Any client sends any registration, login or logout.
RegisterAny(nClients, nUsers) ==
    \E c \in 1..nClients, data \in RegisterData :
        /\ NextId(users) <= nUsers
        /\ ApplyAuth(register(c, data))

Login(nClients, requests) ==
    \E c \in 1..nClients, data \in requests :
        \E user \in login_rows(data) :
            ApplyAuth(login(c, data, user))

Logout(nClients) ==
    \E c \in 1..nClients, cleared \in BOOLEAN :
        ApplyAuth(logout(c, cleared))

CreateList(nLists) ==
    \E u \in users, data \in CreateListData :
        /\ NextId(DOMAIN lists) <= nLists
        /\ Apply(create_list(u, data))

DeleteList(nLists) ==
    \E u \in users, list_id \in 1..nLists, flush_ok \in BOOLEAN :
        Apply(delete_list(u, list_id, flush_ok))

CreateTask(requests, nTasks) ==
    \E u \in users, data \in requests :
        /\ NextId(DOMAIN tasks) <= nTasks
        /\ Apply(create_task(u, data))

UpdateTask(nTasks) ==
    \E u \in users, task_id \in 1..nTasks, data \in UpdateData :
        Apply(update_task(u, task_id, data))

DeleteTask(nTasks) ==
    \E u \in users, task_id \in 1..nTasks, flush_ok \in BOOLEAN :
        Apply(delete_task(u, task_id, flush_ok))

CreateSubtask(nTasks) ==
    \E u \in users, parent_id \in 1..nTasks, data \in SubtaskData :
        /\ NextId(DOMAIN tasks) <= nTasks
        /\ Apply(create_subtask(u, parent_id, data))

MoveTask(moved, nTasks) ==
    \E u \in users, task_id \in moved, data \in MoveData(nTasks) :
        Apply(move_task(u, task_id, data))

MoveTaskToList(nLists, nTasks) ==
    \E u \in users, task_id \in 1..nTasks, data \in MoveToListData(nLists) :
        Apply(move_task_to_list(u, task_id, data))

CompleteAllTasks(nLists) ==
    \E u \in users, list_id \in 1..nLists :
        Apply(complete_all_tasks(u, list_id))

UncheckAllTasks(nLists) ==
    \E u \in users, list_id \in 1..nLists :
        Apply(uncheck_all_tasks(u, list_id))

(***************************************************************************)
(* Spec: every route, MaxUsers users, MaxLists lists, MaxTasks tasks.      *)
(***************************************************************************)
SharedRegister == Register(MaxUsers)
SharedCreateList == CreateList(MaxLists)
SharedDeleteList == DeleteList(MaxLists)
SharedCreateTask == CreateTask(CreateTaskData(MaxLists, MaxTasks), MaxTasks)
SharedUpdateTask == UpdateTask(MaxTasks)
SharedDeleteTask == DeleteTask(MaxTasks)
SharedCreateSubtask == CreateSubtask(MaxTasks)
SharedMoveTask == MoveTask(1..MaxTasks, MaxTasks)
SharedMoveTaskToList == MoveTaskToList(MaxLists, MaxTasks)
SharedCompleteAll == CompleteAllTasks(MaxLists)
SharedUncheckAll == UncheckAllTasks(MaxLists)

Next ==
    \/ SharedRegister
    \/ SharedCreateList
    \/ SharedDeleteList
    \/ SharedCreateTask
    \/ SharedUpdateTask
    \/ SharedDeleteTask
    \/ SharedCreateSubtask
    \/ SharedMoveTask
    \/ SharedMoveTaskToList
    \/ SharedCompleteAll
    \/ SharedUncheckAll

Spec == Init /\ [][Next]_vars

(***************************************************************************)
(* SpecTree: every route on tasks, for one user with one list and          *)
(* TreeMaxTasks tasks.                                                     *)
(***************************************************************************)
FirstRegister == Register(1)
FirstCreateList == CreateList(1)
TreeDeleteList == DeleteList(1)
TreeCreateTask == CreateTask(CreateTaskData(1, TreeMaxTasks), TreeMaxTasks)
TreeUpdateTask == UpdateTask(TreeMaxTasks)
TreeDeleteTask == DeleteTask(TreeMaxTasks)
TreeCreateSubtask == CreateSubtask(TreeMaxTasks)
TreeMoveTask == MoveTask(1..TreeMaxTasks, TreeMaxTasks)
TreeMoveTaskToList == MoveTaskToList(1, TreeMaxTasks)
TreeCompleteAll == CompleteAllTasks(1)
TreeUncheckAll == UncheckAllTasks(1)

NextTree ==
    \/ FirstRegister
    \/ FirstCreateList
    \/ TreeDeleteList
    \/ TreeCreateTask
    \/ TreeUpdateTask
    \/ TreeDeleteTask
    \/ TreeCreateSubtask
    \/ TreeMoveTask
    \/ TreeMoveTaskToList
    \/ TreeCompleteAll
    \/ TreeUncheckAll

SpecTree == Init /\ [][NextTree]_vars

(***************************************************************************)
(* SpecCascade: completion on trees.  One user with one list builds tasks  *)
(* with POST /tasks (no parent_id) and POST /tasks/<id>/subtasks, and      *)
(* completes, re-opens and deletes them.                                   *)
(***************************************************************************)
CascadeCreateTask == CreateTask(TopLevelTaskData, CascadeMaxTasks)
CascadeCreateSubtask == CreateSubtask(CascadeMaxTasks)
CascadeUpdateTask == UpdateTask(CascadeMaxTasks)
CascadeDeleteTask == DeleteTask(CascadeMaxTasks)
CascadeCompleteAll == CompleteAllTasks(1)
CascadeUncheckAll == UncheckAllTasks(1)

NextCascade ==
    \/ FirstRegister
    \/ FirstCreateList
    \/ CascadeCreateTask
    \/ CascadeCreateSubtask
    \/ CascadeUpdateTask
    \/ CascadeDeleteTask
    \/ CascadeCompleteAll
    \/ CascadeUncheckAll

SpecCascade == Init /\ [][NextCascade]_vars

(***************************************************************************)
(* SpecDeep: deep nesting.  One user with one list builds up to            *)
(* DeepMaxTasks tasks as in SpecCascade and moves the first of them.       *)
(***************************************************************************)
DeepCreateTask == CreateTask(TopLevelTaskData, DeepMaxTasks)
DeepCreateSubtask == CreateSubtask(DeepMaxTasks)
DeepMoveTask == MoveTask({1}, DeepMaxTasks)

NextDeep ==
    \/ FirstRegister
    \/ FirstCreateList
    \/ DeepCreateTask
    \/ DeepCreateSubtask
    \/ DeepMoveTask

SpecDeep == Init /\ [][NextDeep]_vars

(***************************************************************************)
(* SpecLists: trees across lists.  One user with up to ListsMaxLists lists *)
(* builds tasks with POST /tasks and POST /tasks/<id>/subtasks, moves them *)
(* under other tasks and between lists, and deletes tasks and lists.       *)
(***************************************************************************)
ListsCreateList == CreateList(ListsMaxLists)
ListsDeleteList == DeleteList(ListsMaxLists)
ListsCreateTask ==
    CreateTask(CreateTaskData(ListsMaxLists, ListsMaxTasks), ListsMaxTasks)
ListsCreateSubtask == CreateSubtask(ListsMaxTasks)
ListsDeleteTask == DeleteTask(ListsMaxTasks)
ListsMoveTask == MoveTask(1..ListsMaxTasks, ListsMaxTasks)
ListsMoveTaskToList == MoveTaskToList(ListsMaxLists, ListsMaxTasks)

NextLists ==
    \/ FirstRegister
    \/ ListsCreateList
    \/ ListsDeleteList
    \/ ListsCreateTask
    \/ ListsCreateSubtask
    \/ ListsDeleteTask
    \/ ListsMoveTask
    \/ ListsMoveTaskToList

SpecLists == Init /\ [][NextLists]_vars

(***************************************************************************)
(* SpecFields: the fields of a task.  One user with one list sends create, *)
(* create-subtask and update requests with every combination of the        *)
(* optional fields, with good and bad values, and moves tasks.             *)
(***************************************************************************)
\* Titles: empty after strip(), "a" after strip(), "b".
FieldTitles == {<<" ">>, <<" ", "a">>, <<"b">>}

\* Urgencies: one of valid_urgencies and one that is not.
FieldUrgencies == {"urgent", "someday"}

\* The JSON objects of D, and those with one more key.
WithTitle(D) == D \cup {d @@ ("title" :> ti) : d \in D, ti \in FieldTitles}
WithUrgency(D) ==
    D \cup {d @@ ("urgency" :> ur) : d \in D, ur \in FieldUrgencies}
WithCompleted(D) ==
    D \cup {d @@ ("completed" :> c) : d \in D, c \in BOOLEAN}

FieldsCreateData == WithUrgency(WithTitle({[list_id |-> 1]}))
FieldsSubtaskData == WithUrgency(WithTitle({<<>>}))
FieldsUpdateData == WithCompleted(WithUrgency(WithTitle({<<>>})))

FieldsCreateTask == CreateTask(FieldsCreateData, FieldsMaxTasks)

FieldsCreateSubtask ==
    \E u \in users, parent_id \in 1..FieldsMaxTasks,
       data \in FieldsSubtaskData :
        /\ NextId(DOMAIN tasks) <= FieldsMaxTasks
        /\ Apply(create_subtask(u, parent_id, data))

FieldsUpdateTask ==
    \E u \in users, task_id \in 1..FieldsMaxTasks, data \in FieldsUpdateData :
        Apply(update_task(u, task_id, data))

FieldsMoveTask == MoveTask(1..FieldsMaxTasks, FieldsMaxTasks)

NextFields ==
    \/ FirstRegister
    \/ FirstCreateList
    \/ FieldsCreateTask
    \/ FieldsCreateSubtask
    \/ FieldsUpdateTask
    \/ FieldsMoveTask

SpecFields == Init /\ [][NextFields]_vars

(***************************************************************************)
(* SpecOwners: whose rows are whose.  Up to OwnersMaxUsers users create    *)
(* lists, tasks in their lists and subtasks of their tasks, and complete   *)
(* and re-open them.                                                       *)
(***************************************************************************)
\* POST /tasks without a parent_id, into any list.
OwnersCreateData(nLists) ==
    {[title |-> ti, list_id |-> l] : ti \in Titles, l \in 1..nLists}

OwnersRegister == Register(OwnersMaxUsers)
OwnersCreateList == CreateList(OwnersMaxLists)
OwnersCreateTask ==
    CreateTask(OwnersCreateData(OwnersMaxLists), OwnersMaxTasks)
OwnersCreateSubtask == CreateSubtask(OwnersMaxTasks)
OwnersUpdateTask == UpdateTask(OwnersMaxTasks)

NextOwners ==
    \/ OwnersRegister
    \/ OwnersCreateList
    \/ OwnersCreateTask
    \/ OwnersCreateSubtask
    \/ OwnersUpdateTask

SpecOwners == Init /\ [][NextOwners]_vars

(***************************************************************************)
(* SpecRace: one user with one list and RaceMaxTasks tasks sends up to     *)
(* RaceMaxRequests move requests at a time, each naming a task and another *)
(* task as its new parent.  The server runs each request in a thread of    *)
(* its own: the validation of one request and its commit are two steps,    *)
(* and steps of other requests can come in between.                        *)
(***************************************************************************)
RaceCreateTask == CreateTask(TopLevelTaskData, RaceMaxTasks)

RaceMoveValidate ==
    \E u \in users, t \in 1..RaceMaxTasks, p \in 1..RaceMaxTasks :
        /\ t # p
        /\ Cardinality(in_flight) < RaceMaxRequests
        /\ move_task_passes(u, t, [parent_id |-> p])
        /\ in_flight' = in_flight \cup {[task_id |-> t, parent_id |-> p]}
        /\ UNCHANGED <<users, lists, tasks, accounts, cookies>>

RaceMoveCommit ==
    \E request \in in_flight :
        /\ tasks' = move_task_commit(tasks, request.task_id, request.parent_id)
        /\ in_flight' = in_flight \ {request}
        /\ UNCHANGED <<users, lists, accounts, cookies>>

NextRace ==
    \/ FirstRegister
    \/ FirstCreateList
    \/ RaceCreateTask
    \/ RaceMoveValidate
    \/ RaceMoveCommit

SpecRace == Init /\ [][NextRace]_vars

(***************************************************************************)
(* SpecSessions: registration, login and logout of SessionsMaxClients      *)
(* clients, for SessionsMaxUsers users.                                    *)
(***************************************************************************)
SessionsRegister == RegisterAny(SessionsMaxClients, SessionsMaxUsers)
SessionsLogin == Login(SessionsMaxClients, LoginData)
SessionsLogout == Logout(SessionsMaxClients)

NextSessions ==
    \/ SessionsRegister
    \/ SessionsLogin
    \/ SessionsLogout

SpecSessions == Init /\ [][NextSessions]_vars

(***************************************************************************)
(* SpecAuth: AuthMaxClients clients register, log in and out, and send     *)
(* requests to routes behind @login_required.                              *)
(***************************************************************************)
NewcomerLogins ==
    {[username |-> NewcomerData(id).username,
      password |-> NewcomerData(id).password] : id \in 1..AuthMaxUsers}

AuthRegister ==
    \E c \in 1..AuthMaxClients :
        /\ NextId(users) <= AuthMaxUsers
        /\ ApplyAuth(register(c, NewcomerData(NextId(users))))
AuthLogin == Login(AuthMaxClients, NewcomerLogins)
AuthLogout == Logout(AuthMaxClients)
AuthCreateList ==
    \E c \in 1..AuthMaxClients, data \in CreateListData :
        /\ NextId(DOMAIN lists) <= AuthMaxLists
        /\ ApplyProtected(login_required(c, create_list(current_user(c), data)))
AuthDeleteList ==
    \E c \in 1..AuthMaxClients, l \in 1..AuthMaxLists :
        ApplyProtected(login_required(c, delete_list(current_user(c), l, TRUE)))
AuthCreateTask ==
    \E c \in 1..AuthMaxClients, data \in TopLevelTaskData :
        /\ NextId(DOMAIN tasks) <= AuthMaxTasks
        /\ ApplyProtected(login_required(c, create_task(current_user(c), data)))

NextAuth ==
    \/ AuthRegister
    \/ AuthLogin
    \/ AuthLogout
    \/ AuthCreateList
    \/ AuthDeleteList
    \/ AuthCreateTask

SpecAuth == Init /\ [][NextAuth]_vars

(***************************************************************************)
(* Notions the properties are stated with.                                 *)
(***************************************************************************)
\* The tasks met by following the stored parent links from cur upwards.
RECURSIVE ChainFrom(_, _, _)
ChainFrom(T, cur, acc) ==
    IF cur = NULL \/ cur \in acc THEN acc
    ELSE ChainFrom(T, parent(T, cur), acc \cup {cur})

\* The parent chain of t: its parent, its parent's parent, ...
ParentChain(T, t) == ChainFrom(T, parent(T, t), {})

\* The transitive descendants of t.
Descendants(T, t) == {d \in DOMAIN T : d # t /\ t \in ParentChain(T, d)}

\* The ancestors an un-completion of t must reach: its parent chain up to,
\* and without, the first ancestor that is not completed.
RECURSIVE CompletedRun(_, _, _)
CompletedRun(T, cur, acc) ==
    IF cur = NULL \/ cur \in acc \/ ~T[cur].completed THEN acc
    ELSE CompletedRun(T, parent(T, cur), acc \cup {cur})

Rejected(r) == r.status >= 400 /\ r.tasks = tasks /\ r.lists = lists

(***************************************************************************)
(* Properties.                                                             *)
(***************************************************************************)

\* C1: the parent relation is acyclic in every reachable state (no task is
\* in its own parent chain), and a move request whose parent_id is the
\* moved task's own id does not store parent_id = id.
C1_Acyclic == \A t \in DOMAIN tasks : t \notin ParentChain(tasks, t)

\* C2: in every state reached through create task, create subtask and move,
\* every task has depth <= 5, the descendants of a moved task included.
C2_DepthAtMostMax ==
    \A t \in DOMAIN tasks : get_depth(tasks, t) <= MaxDepth

\* C3: in every reachable state a task that has a parent has the list_id of
\* its parent.
C3_SameListAsParent ==
    \A t \in DOMAIN tasks :
        parent(tasks, t) # NULL =>
            tasks[t].list_id = tasks[parent(tasks, t)].list_id

\* C4: in every reachable state a parent_id that is set names an existing
\* task owned by the user who owns the task.
C4_ParentOwnedBySameUser ==
    \A t \in DOMAIN tasks :
        tasks[t].parent_id # NULL =>
            /\ tasks[t].parent_id \in DOMAIN tasks
            /\ tasks[tasks[t].parent_id].user_id = tasks[t].user_id

\* C5: in every reachable state every task is completed if and only if its
\* completed_at is non-null.
C5_CompletedIffCompletedAt ==
    \A t \in DOMAIN tasks :
        tasks[t].completed <=> tasks[t].completed_at # NULL

\* C5 witness: a completed task with its time set has a child that was
\* re-opened (or never completed) and has none.
C5_Witness ==
    \E p \in DOMAIN tasks, c \in DOMAIN tasks :
        /\ tasks[c].parent_id = p
        /\ p # c
        /\ tasks[p].completed /\ tasks[p].completed_at = utcnow
        /\ ~tasks[c].completed /\ tasks[c].completed_at = NULL

\* C6: in every reachable state, a move request that would put a task A
\* under one of its strict descendants D is answered with an error and
\* leaves every task and list as it was.
C6_MoveUnderDescendantRejected ==
    \A u \in users, a \in DOMAIN tasks :
        \A d \in Descendants(tasks, a) :
            Rejected(move_task(u, a, [parent_id |-> d]))

\* C6 witness: a task's owner asks to move it under its own grandchild (or
\* a deeper descendant) and is refused by the descendant check.
C6_Witness ==
    \E u \in users, a \in DOMAIN tasks :
        \E d \in Descendants(tasks, a) :
            /\ owned_task(tasks, u, a)
            /\ tasks[d].parent_id # a
            /\ move_task(u, a, [parent_id |-> d]).message
                   = "Cannot move task to descendant"
            /\ Rejected(move_task(u, a, [parent_id |-> d]))

\* C7: a create-subtask request under a task at depth 4 is rejected and
\* creates no task; tasks are only ever created at depths 0..4.
C7_SubtaskUnderDepth4Rejected ==
    \A u \in users, p \in DOMAIN tasks, data \in SubtaskData :
        LET r == create_subtask(u, p, data)
        IN /\ get_depth(tasks, p) = MaxDepth - 1 => Rejected(r)
           /\ r.status = 201 =>
                  get_depth(r.tasks, NextId(DOMAIN tasks)) <= MaxDepth - 1

\* C8: after an update with completed = true on a task t, t and every
\* transitive descendant of t is completed, also those below a child that
\* was completed before the request.
C8_CompleteReachesAllDescendants ==
    \A u \in users, t \in DOMAIN tasks :
        LET r == update_task(u, t, [completed |-> TRUE])
        IN r.status = 200 =>
               \A d \in {t} \cup Descendants(tasks, t) : r.tasks[d].completed

\* C9: after an update with completed = false on a task, the task is
\* incomplete and so is every ancestor up to the first ancestor that was not
\* completed (the parent, its parent if that was completed, and so on).
C9_UncompleteWalksUp ==
    \A u \in users, c \in DOMAIN tasks :
        LET r == update_task(u, c, [completed |-> FALSE])
        IN r.status = 200 =>
               /\ ~r.tasks[c].completed
               /\ \A a \in CompletedRun(tasks, parent(tasks, c), {}) :
                      ~r.tasks[a].completed

\* C10: after a successful complete-all on list L every task whose list_id
\* is L is completed, at every depth, also the incomplete subtasks of a
\* top-level task that was completed before the request.
C10_CompleteAllCompletesList ==
    \A u \in users, l \in DOMAIN lists :
        LET r == complete_all_tasks(u, l)
        IN r.status = 200 =>
               \A t \in DOMAIN r.tasks :
                   r.tasks[t].list_id = l => r.tasks[t].completed

\* C11: after a successful uncheck-all on list L every task whose list_id is
\* L, top-level or nested at any depth, is incomplete with completed_at
\* null, however it became completed.
C11_UncheckAllClearsList ==
    \A u \in users, l \in DOMAIN lists :
        LET r == uncheck_all_tasks(u, l)
        IN r.status = 200 =>
               \A t \in DOMAIN r.tasks :
                   r.tasks[t].list_id = l =>
                       /\ ~r.tasks[t].completed
                       /\ r.tasks[t].completed_at = NULL

\* C12: complete-all and uncheck-all on list L never change completed or
\* completed_at of a task whose list_id is not L.
C12_BulkScopedToList ==
    \A u \in users, l \in DOMAIN lists :
        \A r \in {complete_all_tasks(u, l), uncheck_all_tasks(u, l)} :
            \A t \in DOMAIN tasks :
                tasks[t].list_id # l =>
                    /\ r.tasks[t].completed = tasks[t].completed
                    /\ r.tasks[t].completed_at = tasks[t].completed_at

\* C13 as stated: after a successful move-to-list of a top-level task t to a
\* list N owned by the caller, t and every transitive descendant of t has
\* list_id = N, t is no longer among the tasks of its old list, and no task
\* outside t's subtree changes list_id.
C13_MoveToListLeavesOldList ==
    \A u \in users, t \in DOMAIN tasks, n \in DOMAIN lists :
        LET r == move_task_to_list(u, t, [new_list_id |-> n])
        IN r.status = 200 =>
               /\ \A d \in {t} \cup Descendants(tasks, t) :
                      r.tasks[d].list_id = n
               /\ r.tasks[t].list_id # tasks[t].list_id
               /\ \A o \in DOMAIN tasks \ ({t} \cup Descendants(tasks, t)) :
                      r.tasks[o].list_id = tasks[o].list_id

\* C13 amended: after a successful move-to-list of a top-level task t to a
\* list N owned by the caller, t and every transitive descendant of t has
\* list_id = N, t is no longer among the tasks of its old list when N is not
\* that list, and no task outside t's subtree changes list_id.
C13_MoveToListMovesSubtree ==
    \A u \in users, t \in DOMAIN tasks, n \in DOMAIN lists :
        LET r == move_task_to_list(u, t, [new_list_id |-> n])
        IN r.status = 200 =>
               /\ \A d \in {t} \cup Descendants(tasks, t) :
                      r.tasks[d].list_id = n
               /\ n # tasks[t].list_id =>
                      r.tasks[t].list_id # tasks[t].list_id
               /\ \A o \in DOMAIN tasks \ ({t} \cup Descendants(tasks, t)) :
                      r.tasks[o].list_id = tasks[o].list_id

\* C13 witness: a top-level task with a child and a grandchild is moved to
\* another list of its owner.
C13_Witness ==
    \E u \in users, t \in DOMAIN tasks, n \in DOMAIN lists :
        /\ move_task_to_list(u, t, [new_list_id |-> n]).status = 200
        /\ n # tasks[t].list_id
        /\ \E c \in Descendants(tasks, t), g \in Descendants(tasks, t) :
               /\ tasks[c].parent_id = t
               /\ tasks[g].parent_id = c
               /\ tasks[g].list_id # n

\* C14: a move-to-list request on a task whose parent_id is not null is
\* answered with an error, and after it the list_id of that task and of
\* every other task is as before (as is everything else in the store).
C14_MoveToListOfSubtaskRejected ==
    \A u \in users, t \in DOMAIN tasks :
        \A data \in MoveToListData(ListsMaxLists) \cup {<<>>} :
            tasks[t].parent_id # NULL =>
                LET r == move_task_to_list(u, t, data)
                IN /\ Rejected(r)
                   /\ \A x \in DOMAIN tasks :
                          r.tasks[x].list_id = tasks[x].list_id

\* C14 witness: the owner of a subtask that has a subtask itself asks to move
\* it to another of their lists and is refused because it is not top-level.
C14_Witness ==
    \E u \in users, t \in DOMAIN tasks, n \in DOMAIN lists :
        LET r == move_task_to_list(u, t, [new_list_id |-> n])
        IN /\ parent(tasks, t) # NULL
           /\ t \notin ParentChain(tasks, t)
           /\ Descendants(tasks, t) # {}
           /\ owned_task(tasks, u, t) /\ owned_list(lists, u, n)
           /\ n # tasks[t].list_id
           /\ r.status = 400
           /\ r.message = "Only top-level tasks can be moved between lists"
           /\ Rejected(r)

\* C15: after a successful delete of task t, t and every transitive
\* descendant of t no longer exist, and every task that was not in t's
\* subtree still exists with all its fields unchanged.
C15_DeleteTaskRemovesSubtreeOnly ==
    \A u \in users, t \in DOMAIN tasks, flush_ok \in BOOLEAN :
        LET r == delete_task(u, t, flush_ok)
            subtree == {t} \cup Descendants(tasks, t)
        IN r.status = 200 =>
               /\ DOMAIN r.tasks = DOMAIN tasks \ subtree
               /\ \A o \in DOMAIN tasks \ subtree : r.tasks[o] = tasks[o]

\* C15 witness: the owner deletes a task that has a child and a grandchild.
C15_Witness ==
    \E u \in users, t \in DOMAIN tasks :
        /\ delete_task(u, t, TRUE).status = 200
        /\ t \notin ParentChain(tasks, t)
        /\ \E c \in DOMAIN tasks, g \in DOMAIN tasks :
               /\ tasks[c].parent_id = t
               /\ tasks[g].parent_id = c
               /\ g \notin DOMAIN delete_task(u, t, TRUE).tasks

\* C16: after a successful delete of list L, the list L and every task that
\* had list_id = L, top-level or nested, no longer exist.
C16_DeleteListRemovesItsTasks ==
    \A u \in users, l \in DOMAIN lists, flush_ok \in BOOLEAN :
        LET r == delete_list(u, l, flush_ok)
        IN r.status = 200 =>
               /\ l \notin DOMAIN r.lists
               /\ \A t \in DOMAIN tasks :
                      tasks[t].list_id = l => t \notin DOMAIN r.tasks

\* C16 witness: a list that holds a task and a subtask of it is deleted by
\* its owner, who has another list with a task that stays.
C16_Witness ==
    \E u \in users, l \in DOMAIN lists :
        LET r == delete_list(u, l, TRUE)
        IN /\ r.status = 200
           /\ \E t \in DOMAIN tasks, c \in DOMAIN tasks :
                  /\ tasks[t].list_id = l /\ tasks[t].parent_id = NULL
                  /\ tasks[c].list_id = l /\ tasks[c].parent_id = t
                  /\ {t, c} \cap DOMAIN r.tasks = {}
           /\ \E o \in DOMAIN r.tasks : tasks[o].list_id # l

\* Two responses of POST /tasks that differ at most in the parent_id they
\* echo.
SameButParentId(a, b) ==
    /\ a.status = b.status
    /\ a.message = b.message
    /\ Len(a.task) = Len(b.task)
    /\ \A i \in 1..Len(a.task) :
           \A k \in DOMAIN a.task[i] \ {"parent_id"} :
               a.task[i][k] = b.task[i][k]

\* The status and message of a response.
Answer(r) == <<r.status, r.message>>

\* C17: for every operation and every identifier it takes, the caller sees
\* the same outcome when the identifier names a task or list of another
\* user as when it names nothing; this holds of the parent_id given to
\* create task as well.
C17_ForeignLooksAbsent ==
    \A u \in users :
        LET no_task == NextId(DOMAIN tasks) + 1
            no_list == NextId(DOMAIN lists)
        IN /\ \A f \in DOMAIN tasks :
                  tasks[f].user_id # u =>
                      /\ \A data \in UpdateData :
                             Answer(update_task(u, f, data))
                                 = Answer(update_task(u, no_task, data))
                      /\ Answer(delete_task(u, f, TRUE))
                             = Answer(delete_task(u, no_task, TRUE))
                      /\ \A data \in SubtaskData :
                             Answer(create_subtask(u, f, data))
                                 = Answer(create_subtask(u, no_task, data))
                      /\ \A data \in MoveData(MaxTasks) :
                             Answer(move_task(u, f, data))
                                 = Answer(move_task(u, no_task, data))
                      /\ \A t \in DOMAIN tasks :
                             Answer(move_task(u, t, [parent_id |-> f]))
                                 = Answer(move_task(u, t, [parent_id |-> no_task]))
                      /\ \A data \in MoveToListData(MaxLists) :
                             Answer(move_task_to_list(u, f, data))
                                 = Answer(move_task_to_list(u, no_task, data))
                      /\ \A ti \in Titles, l \in DOMAIN lists :
                             SameButParentId(
                                 create_task_response(u,
                                     [title |-> ti, list_id |-> l,
                                      parent_id |-> f]),
                                 create_task_response(u,
                                     [title |-> ti, list_id |-> l,
                                      parent_id |-> no_task]))
           /\ \A g \in DOMAIN lists :
                  lists[g].user_id # u =>
                      /\ Answer(delete_list(u, g, TRUE))
                             = Answer(delete_list(u, no_list, TRUE))
                      /\ Answer(complete_all_tasks(u, g))
                             = Answer(complete_all_tasks(u, no_list))
                      /\ Answer(uncheck_all_tasks(u, g))
                             = Answer(uncheck_all_tasks(u, no_list))
                      /\ \A ti \in Titles :
                             Answer(create_task(u, [title |-> ti, list_id |-> g]))
                                 = Answer(create_task(u,
                                       [title |-> ti, list_id |-> no_list]))
                      /\ \A t \in DOMAIN tasks :
                             Answer(move_task_to_list(u, t, [new_list_id |-> g]))
                                 = Answer(move_task_to_list(u, t,
                                       [new_list_id |-> no_list]))

\* The results of every request a user u can send to a mutating route, over
\* ids of 1..nLists and 1..nTasks.
Results(u, nLists, nTasks) ==
    {create_list(u, data) : data \in CreateListData}
    \cup {delete_list(u, l, ok) : l \in 1..nLists, ok \in BOOLEAN}
    \cup {create_task(u, data) : data \in CreateTaskData(nLists, nTasks)}
    \cup {update_task(u, t, data) : t \in 1..nTasks, data \in UpdateData}
    \cup {delete_task(u, t, ok) : t \in 1..nTasks, ok \in BOOLEAN}
    \cup {create_subtask(u, t, data) : t \in 1..nTasks, data \in SubtaskData}
    \cup {move_task(u, t, data) : t \in 1..nTasks, data \in MoveData(nTasks)}
    \cup {move_task_to_list(u, t, data) :
              t \in 1..nTasks, data \in MoveToListData(nLists)}
    \cup {complete_all_tasks(u, l) : l \in 1..nLists}
    \cup {uncheck_all_tasks(u, l) : l \in 1..nLists}

\* C18: whenever a mutating operation returns an error result, the stored
\* lists and tasks are exactly those before the operation; no operation
\* commits its change and then reports failure.
C18_ErrorLeavesStoreUnchanged ==
    \A u \in users :
        \A r \in Results(u, 1, TreeMaxTasks) :
            r.status >= 400 => r.tasks = tasks /\ r.lists = lists

\* C19: from every reachable state every operation terminates: each request
\* to a mutating route is answered (its walks up and down the tree finish).
C19_EveryRequestIsAnswered ==
    \A u \in users :
        \A r \in Results(u, 1, TreeMaxTasks) : r.message # "(no response)"

\* C20: when create task is called with a parent_id (of a task of the
\* caller), the new task's list_id is the parent's list_id whatever list_id
\* the caller sent, and the request is rejected when the new task's depth
\* would reach the maximum depth.
C20_CreateTaskInheritsParentList ==
    \A u \in users, p \in DOMAIN tasks :
        \A data \in CreateTaskData(ListsMaxLists, ListsMaxTasks) :
            (owned_task(tasks, u, p) /\ data.parent_id = p) =>
                LET r == create_task(u, data)
                    id == NextId(DOMAIN tasks)
                IN /\ r.status = 201 =>
                          r.tasks[id].list_id = tasks[p].list_id
                   /\ get_depth(tasks, p) + 1 >= MaxDepth => Rejected(r)

\* C21: a move request of an owned task is rejected when the new parent
\* does not exist or is not owned by the caller, when the new parent's
\* depth is >= 5, or when the new parent's list_id differs from the task's;
\* after such a rejection the task's parent_id (and the rest of the store)
\* is unchanged.  A move with parent_id = null is always accepted for an
\* owned task and makes it top-level.
C21_MoveRejections ==
    \A u \in users, t \in DOMAIN tasks :
        owned_task(tasks, u, t) =>
            /\ \A p \in 1..(NextId(DOMAIN tasks)) :
                   LET r == move_task(u, t, [parent_id |-> p])
                   IN (\/ ~owned_task(tasks, u, p)
                       \/ get_depth(tasks, p) >= MaxDepth
                       \/ tasks[p].list_id # tasks[t].list_id)
                          => Rejected(r) /\ r.tasks[t].parent_id = tasks[t].parent_id
            /\ LET r == move_task(u, t, [parent_id |-> NULL])
               IN r.status = 200 /\ r.tasks[t].parent_id = NULL

\* C22: in every reachable state every task's urgency is one of low,
\* medium, high, urgent; no create or update request stores another value.
C22_UrgencyInEnum ==
    \A t \in DOMAIN tasks : tasks[t].urgency \in valid_urgencies

\* C23: an update request of an owned task that carries an urgency outside
\* {low, medium, high, urgent} (and no empty title) succeeds without error,
\* leaves the task's urgency unchanged and still applies the other fields
\* of the request (title, completed).
C23_BadUrgencyIgnored ==
    \A u \in users, t \in DOMAIN tasks, data \in FieldsUpdateData :
        (/\ owned_task(tasks, u, t)
         /\ "urgency" \in DOMAIN data
         /\ data.urgency \notin valid_urgencies
         /\ "title" \in DOMAIN data => strip(data.title) # <<>>)
        => LET r == update_task(u, t, data)
           IN /\ r.status = 200
              /\ r.tasks[t].urgency = tasks[t].urgency
              /\ "title" \in DOMAIN data =>
                     r.tasks[t].title = strip(data.title)
              /\ "completed" \in DOMAIN data =>
                     r.tasks[t].completed = data.completed

\* C24: create task and create subtask are rejected when the title is
\* missing or empty after trimming, and create task is rejected when the
\* list does not exist or is not owned by the caller; in each case the set
\* of tasks (and the rest of the store) is unchanged.  An update with an
\* empty-after-trim title is rejected without applying any other field.
C24_BadCreateAndUpdateRejected ==
    \A u \in users :
        /\ \A l \in 1..NextId(DOMAIN lists) :
               \A data \in WithUrgency(WithTitle({[list_id |-> l]})) :
                   (\/ "title" \notin DOMAIN data
                    \/ strip(data.title) = <<>>
                    \/ ~(l \in DOMAIN lists /\ lists[l].user_id = u))
                   => Rejected(create_task(u, data))
        /\ \A p \in 1..NextId(DOMAIN tasks), data \in FieldsSubtaskData :
               ("title" \notin DOMAIN data \/ strip(data.title) = <<>>)
               => Rejected(create_subtask(u, p, data))
        /\ \A t \in 1..NextId(DOMAIN tasks), data \in FieldsUpdateData :
               ("title" \in DOMAIN data /\ strip(data.title) = <<>>)
               => Rejected(update_task(u, t, data))

\* C24 witness: a user who has a task is refused a task in another user's
\* list, a subtask without a title, and an update of the task that carries
\* an empty title next to completed = true.
C24_Witness ==
    \E u \in users, l \in DOMAIN lists, t \in DOMAIN tasks :
        /\ lists[l].user_id # u
        /\ owned_task(tasks, u, t)
        /\ create_task(u, [title |-> <<"b">>, list_id |-> l]).status = 404
        /\ Rejected(create_task(u, [title |-> <<"b">>, list_id |-> l]))
        /\ create_subtask(u, t, <<>>).status = 400
        /\ ~tasks[t].completed
        /\ Rejected(update_task(u, t, [title |-> <<" ">>, completed |-> TRUE]))

\* C25: for every task t in every reachable state, depth(t) = 0 if and only
\* if t has no parent, and otherwise depth(t) = depth(parent(t)) + 1; the
\* depth of a serialized task is the length of its stored parent chain.
C25_DepthIsChainLength ==
    \A t \in DOMAIN tasks :
        LET d == get_depth(tasks, t)
        IN /\ d # RecursionError
           /\ d = 0 <=> parent(tasks, t) = NULL
           /\ parent(tasks, t) # NULL =>
                  d = get_depth(tasks, parent(tasks, t)) + 1
           /\ to_dict(tasks, t).depth = Cardinality(ParentChain(tasks, t))

\* The elements of a sequence.
Range(seq) == {seq[i] : i \in 1..Len(seq)}

\* C26: for every task t in every reachable state, descendants(t) contains
\* every task that has t in its parent chain, nothing else, no task twice
\* and not t; total_descendants of the tree view is the size of t's subtree
\* minus one and total_count of the flatten view is the subtree size.
C26_DescendantsAreTheSubtree ==
    \A t \in DOMAIN tasks :
        LET ds == get_all_descendants(tasks, t)
            u == tasks[t].user_id
        IN /\ ds # <<RecursionError>>
           /\ Range(ds) = Descendants(tasks, t)
           /\ Len(ds) = Cardinality(Range(ds))
           /\ t \notin Range(ds)
           /\ u \in users =>
                  /\ get_task_tree(u, t).total_descendants
                         = Cardinality({t} \cup Descendants(tasks, t)) - 1
                  /\ flatten_task_tree(u, t).total_count
                         = Cardinality({t} \cup Descendants(tasks, t))

\* The answers a client c holding the cookies K gets from the routes behind
\* @login_required.
ProtectedResults(K, c) ==
    LET loaded == load_user(K, c)
    IN  IF loaded.user = NULL
        THEN {Result(tasks, lists, 302, "Redirecting to auth.login")}
        ELSE Results(loaded.user, AuthMaxLists, AuthMaxTasks)

Refused(r) == r.status \in {302, 401} /\ r.tasks = tasks /\ r.lists = lists

\* C27: a list or task operation is executed only for a caller whose session
\* is authenticated; a request of a client that never logged in, or that has
\* logged out since, is refused and leaves all lists and tasks unchanged.
C27_UnauthenticatedRefused ==
    \A c \in 1..AuthMaxClients :
        /\ c \notin DOMAIN cookies
               => \A r \in ProtectedResults(cookies, c) : Refused(r)
        /\ \A cleared \in BOOLEAN :
               \A r \in ProtectedResults(logout(c, cleared).cookies, c) :
                   Refused(r)

\* Two addresses that differ at most in the case of their letters.
FoldCase(ch) == CASE ch = "A" -> "a" [] ch = "B" -> "b" [] OTHER -> ch
SameAddress(a, b) ==
    /\ Len(a) = Len(b)
    /\ \A i \in DOMAIN a : FoldCase(a[i]) = FoldCase(b[i])

\* C28: no two users have the same username and no two users have the same
\* email; a register request whose username or lower-cased email is already
\* taken is rejected, creates no user and does not authenticate the caller.
C28_UniqueUsernameAndEmail ==
    /\ \A u \in users, v \in users :
           u # v => /\ accounts[u].username # accounts[v].username
                    /\ accounts[u].email # accounts[v].email
    /\ \A c \in 1..SessionsMaxClients, data \in RegisterData :
           LET r == register(c, data)
           IN  /\ {"username", "email", "password"} \subseteq DOMAIN data
               /\ \E u \in users :
                      \/ accounts[u].username = strip(data.username)
                      \/ SameAddress(accounts[u].email, strip(data.email))
               => /\ r.status = 400
                  /\ r.users = users
                  /\ r.accounts = accounts
                  /\ r.cookies = cookies

\* Two users are registered, and a well-formed request asks for the address
\* of one of them in other letters, under a name that is free.
C28_Witness ==
    /\ Cardinality(users) = 2
    /\ \E u \in users, data \in RegisterData :
           /\ {"username", "email", "password"} \subseteq DOMAIN data
           /\ Len(data.password) >= 6
           /\ Len(strip(data.username)) >= 3
           /\ \A v \in users : accounts[v].username # strip(data.username)
           /\ data.email # accounts[u].email
           /\ SameAddress(accounts[u].email, strip(data.email))

\* C29: a login request with an unknown identifier or a wrong password is
\* rejected (401) and leaves the session's authentication state unchanged; a
\* login succeeds only when the supplied password verifies against the user
\* matched by the identifier.
C29_BadLoginRejected ==
    \A c \in 1..SessionsMaxClients, data \in LoginData :
        {"username", "password"} \subseteq DOMAIN data =>
            \A user \in login_rows(data) :
                LET r == login(c, data, user)
                    unknown ==
                        \A u \in users :
                            /\ accounts[u].username # strip(data.username)
                            /\ accounts[u].email # strip(data.username)
                    wrong ==
                        /\ user # NULL
                        /\ accounts[user].password_hash
                               # <<"hash", data.password>>
                IN  /\ unknown \/ wrong
                        => /\ r.status = 401
                           /\ r.cookies = cookies
                           /\ r.users = users
                           /\ r.accounts = accounts
                    /\ r.status = 200
                        => /\ user \in users
                           /\ \/ accounts[user].username = strip(data.username)
                              \/ accounts[user].email = strip(data.username)
                           /\ accounts[user].password_hash
                                  = <<"hash", data.password>>
                           /\ load_user(r.cookies, c).user = user

\* A client has logged in as one of two users with different passwords, and
\* the address of that user is the name of the other: a login under it can
\* fail on the password of either.
C29_Witness ==
    \E c \in 1..SessionsMaxClients, u \in users, v \in users :
        /\ cookie(cookies, c).remember = u
        /\ u # v
        /\ accounts[u].password_hash # accounts[v].password_hash
        /\ accounts[v].username = accounts[u].email

\* C30: in an acyclic state, for all tasks a and b, is_ancestor_of(a, b) is
\* true if and only if a is reachable from b by following one or more parent
\* links; is_ancestor_of(a, a) is false and is_ancestor_of(parent(b), b) is
\* true.
C30_IsAncestorOfIsParentChain ==
    C1_Acyclic =>
        \A a \in DOMAIN tasks, b \in DOMAIN tasks :
            /\ is_ancestor_of(tasks, a, b) \in {"yes", "no"}
            /\ is_ancestor_of(tasks, a, b) = "yes"
                   <=> a \in ParentChain(tasks, b)
            /\ is_ancestor_of(tasks, a, a) = "no"
            /\ parent(tasks, b) = a => is_ancestor_of(tasks, a, b) = "yes"

\* An acyclic chain of three tasks: the first is an ancestor of the third
\* without being its parent, and the third is no ancestor of the first.
C30_Witness ==
    /\ C1_Acyclic
    /\ \E a \in DOMAIN tasks, b \in DOMAIN tasks, c \in DOMAIN tasks :
           /\ parent(tasks, c) = b
           /\ parent(tasks, b) = a
           /\ parent(tasks, a) = NULL
           /\ is_ancestor_of(tasks, a, c) = "yes"
           /\ is_ancestor_of(tasks, c, a) = "no"

\* C31: a successful move changes only the parent_id of the moved task: the
\* parent_id of each of its descendants, every task's list_id and every
\* task's completed and completed_at are unchanged, and the moved task keeps
\* its whole subtree.
C31_MoveChangesParentIdOnly ==
    \A u \in users, t \in DOMAIN tasks, data \in MoveData(TreeMaxTasks) :
        LET r == move_task(u, t, data)
        IN  r.status = 200 =>
                /\ DOMAIN r.tasks = DOMAIN tasks
                /\ r.lists = lists
                /\ r.tasks[t] = [tasks[t] EXCEPT !.parent_id = data.parent_id]
                /\ \A x \in DOMAIN tasks \ {t} : r.tasks[x] = tasks[x]
                /\ Descendants(r.tasks, t) = Descendants(tasks, t)

\* A task that has a child can be moved under another task.
C31_Witness ==
    \E u \in users, t \in DOMAIN tasks, p \in DOMAIN tasks :
        /\ Descendants(tasks, t) # {}
        /\ tasks[t].parent_id # p
        /\ move_task(u, t, [parent_id |-> p]).status = 200

\* The completion fields of the tasks of X are the same in T as in tasks.
SameCompletion(T, X) ==
    \A x \in X : /\ x \in DOMAIN T
                 /\ T[x].completed = tasks[x].completed
                 /\ T[x].completed_at = tasks[x].completed_at

\* C32: completing a task through update changes the completion fields of no
\* task outside that task's subtree, and un-completing a task through update
\* changes the completion fields of no task other than the task itself and
\* its ancestors.
C32_CompletionFrame ==
    \A u \in users, t \in DOMAIN tasks :
        /\ SameCompletion(update_task(u, t, [completed |-> TRUE]).tasks,
               DOMAIN tasks \ ({t} \cup Descendants(tasks, t)))
        /\ SameCompletion(update_task(u, t, [completed |-> FALSE]).tasks,
               DOMAIN tasks \ ({t} \cup ParentChain(tasks, t)))

\* A task with a parent, a sibling and a child is completed while the three
\* are incomplete: the cascade completes the child.
C32_Witness ==
    \E u \in users, t \in DOMAIN tasks, s \in DOMAIN tasks, d \in DOMAIN tasks :
        LET r == update_task(u, t, [completed |-> TRUE])
        IN  /\ parent(tasks, t) # NULL
            /\ s # t
            /\ parent(tasks, s) = parent(tasks, t)
            /\ parent(tasks, d) = t
            /\ ~tasks[parent(tasks, t)].completed
            /\ ~tasks[s].completed
            /\ ~tasks[d].completed
            /\ r.status = 200
            /\ r.tasks[d].completed

\* C33: when two move requests run concurrently, each validating before the
\* other commits, the state after both commits is still acyclic and within
\* the depth limit.
C33_ConcurrentMovesKeepTree ==
    in_flight = {} =>
        /\ \A t \in DOMAIN tasks : t \notin ParentChain(tasks, t)
        /\ \A t \in DOMAIN tasks :
               get_depth(tasks, t) \in 0..MaxDepth

\* C34: in every reachable state no completed task has an incomplete
\* descendant, also after a subtask is created under a completed task and
\* after a nested task is un-completed.
C34_CompletedSubtreeIsCompleted ==
    \A t \in DOMAIN tasks :
        tasks[t].completed =>
            \A d \in Descendants(tasks, t) : tasks[d].completed

\* C35: no operation issued by user u changes any field of, or deletes, a
\* task or a list owned by a different user.
C35_OtherUsersRowsUntouched ==
    \A u \in users :
        \A r \in Results(u, MaxLists, MaxTasks) :
            /\ \A t \in DOMAIN tasks :
                   tasks[t].user_id # u
                       => t \in DOMAIN r.tasks /\ r.tasks[t] = tasks[t]
            /\ \A l \in DOMAIN lists :
                   lists[l].user_id # u
                       => l \in DOMAIN r.lists /\ r.lists[l] = lists[l]

\* C36: in every reachable state every task's list_id references an existing
\* list whose owner is the task's own user_id.
C36_TaskInOwnList ==
    \A t \in DOMAIN tasks :
        /\ tasks[t].list_id \in DOMAIN lists
        /\ lists[tasks[t].list_id].user_id = tasks[t].user_id

\* C37: for every list L in every reachable state, the nested view returned
\* for L contains exactly the tasks whose list_id is L, each exactly once, so
\* that its size equals the list's task_count.
C37_ViewHoldsTheListOnce ==
    \A u \in users, l \in DOMAIN lists :
        owned_list(lists, u, l) =>
            LET view == get_tasks(u, l)
            IN  /\ view.status = 200
                /\ Range(view.tasks) = {t \in DOMAIN tasks : tasks[t].list_id = l}
                /\ \A i \in DOMAIN view.tasks, j \in DOMAIN view.tasks :
                       view.tasks[i] = view.tasks[j] => i = j
                /\ Len(view.tasks) = task_count(tasks, l)

\* C38: in every state reachable through register requests a login
\* identifier matches at most one user under the login rule (username equals
\* identifier or email equals identifier), so that a successful login is a
\* login as the one user the identifier names.
C38_IdentifierNamesOneUser ==
    \A c \in 1..SessionsMaxClients, data \in LoginData :
        {"username", "password"} \subseteq DOMAIN data =>
            /\ Cardinality(login_matches(strip(data.username))) <= 1
            /\ \A user \in login_rows(data) :
                   login(c, data, user).status = 200
                       => login_matches(strip(data.username)) = {user}

====
